---- MODULE Spec2Model ----
(***************************************************************************)
(* Model of the stimpl interpreter (src/stimpl/runtime.py): the chained    *)
(* interpreter State, the recursive function evaluate, and run_stimpl      *)
(* executing a Program one top-level expression after the other.           *)
(***************************************************************************)
EXTENDS Integers, Sequences, FiniteSets, TLC

(***************************************************************************)
(* Bounds of the model.                                                    *)
(***************************************************************************)
\* number of top-level expressions of the Program that is run
MaxExprs == 2
\* number of body iterations of all While loops of one top-level expression
\* after which the evaluation is cut off as still looping
MaxIter == 3

\* the number of State objects built in the object-level specification
MaxCells == 3

(***************************************************************************)
(* Python values.  A payload is a Python object; cls is its Python class.  *)
(* Numbers (int, float, bool) are the reduced fraction n/d, strings are    *)
(* the sequence s of their code points.  Floats are modelled as exact      *)
(* fractions.                                                              *)
(***************************************************************************)
PyNone == [cls |-> "NoneType", n |-> 0, d |-> 1, s |-> <<>>]
PyInt(i) == [cls |-> "int", n |-> i, d |-> 1, s |-> <<>>]
PyBool(b) == [cls |-> "bool", n |-> IF b THEN 1 ELSE 0, d |-> 1, s |-> <<>>]
PyStr(chars) == [cls |-> "str", n |-> 0, d |-> 1, s |-> chars]

Abs(i) == IF i < 0 THEN -i ELSE i

RECURSIVE Gcd(_, _)
Gcd(a, b) == IF b = 0 THEN a ELSE Gcd(b, a % b)

\* the float num/den (den # 0), reduced, with a positive denominator
PyFloat(num, den) ==
    LET g == Gcd(Abs(num), Abs(den))
        sign == IF den < 0 THEN -1 ELSE 1
    IN  [cls |-> "float", n |-> sign * (num \div g), d |-> Abs(den) \div g, s |-> <<>>]

IsNumber(v) == v.cls \in {"int", "float", "bool"}

\* Python's a == b
PyEq(a, b) ==
    IF IsNumber(a) /\ IsNumber(b) THEN a.n * b.d = b.n * a.d
    ELSE a.cls = b.cls /\ a.s = b.s

RECURSIVE LexLess(_, _)
LexLess(a, b) ==
    IF b = <<>> THEN FALSE
    ELSE IF a = <<>> THEN TRUE
    ELSE IF Head(a) # Head(b) THEN Head(a) < Head(b)
    ELSE LexLess(Tail(a), Tail(b))

\* Python's a < b, for two numbers or two strings
PyLess(a, b) ==
    IF a.cls = "str" THEN LexLess(a.s, b.s) ELSE a.n * b.d < b.n * a.d

\* Python's truth value of an object
Truthy(v) ==
    IF v.cls = "NoneType" THEN FALSE
    ELSE IF v.cls = "str" THEN v.s # <<>>
    ELSE v.n # 0

\* the class of the result of an arithmetic operator on two numbers
NumCls(a, b) == IF a.cls = "float" \/ b.cls = "float" THEN "float" ELSE "int"

Num(cls, num, den) == IF cls = "float" THEN PyFloat(num, den) ELSE PyInt(num \div den)

\* Python's a + b
PyAdd(a, b) ==
    IF a.cls = "str" THEN PyStr(a.s \o b.s)
    ELSE Num(NumCls(a, b), a.n * b.d + b.n * a.d, a.d * b.d)

\* Python's a - b
PySub(a, b) == Num(NumCls(a, b), a.n * b.d - b.n * a.d, a.d * b.d)

\* Python's a * b
PyMul(a, b) == Num(NumCls(a, b), a.n * b.n, a.d * b.d)

\* Python's a / b (true division), b # 0
PyTrueDiv(a, b) == PyFloat(a.n * b.d, a.d * b.n)


\* division truncating toward zero, as C's / on int
FloorDiv_truncating(x, y) ==
    IF (x < 0) = (y < 0) THEN Abs(x) \div Abs(y) ELSE -(Abs(x) \div Abs(y))

\* floor of x / y for y # 0
FloorDiv(x, y) == IF y < 0 THEN (-x) \div (-y) ELSE x \div y


\* the Integer case dividing with /, whose result is a float
PyFloorDiv_true_division(a, b) == PyFloat(a.n * b.d, a.d * b.n)

\* Python's a // b (floor division), b # 0
PyFloorDiv(a, b) ==
    IF NumCls(a, b) = "float" THEN PyFloat(FloorDiv(a.n * b.d, a.d * b.n), 1)
    ELSE PyInt(FloorDiv(a.n * b.d, a.d * b.n))


\* one decimal digit string of a natural number
RECURSIVE Digits(_)
Digits(i) == IF i < 10 THEN <<48 + i>> ELSE Digits(i \div 10) \o <<48 + (i % 10)>>

\* the decimal digits of rem/den < 1 (at most k of them)
RECURSIVE FracDigits(_, _, _)
FracDigits(rem, den, k) ==
    IF rem = 0 \/ k = 0 THEN <<>>
    ELSE <<48 + ((rem * 10) \div den)>> \o FracDigits((rem * 10) % den, den, k - 1)

\* Python's str(v), the text of f"{v}", as code points
PyText(v) ==
    IF v.cls = "NoneType" THEN <<78, 111, 110, 101>>
    ELSE IF v.cls = "str" THEN v.s
    ELSE IF v.cls = "bool" THEN
        (IF v.n # 0 THEN <<84, 114, 117, 101>> ELSE <<70, 97, 108, 115, 101>>)
    ELSE LET sign == IF v.n < 0 THEN <<45>> ELSE <<>>
             whole == Abs(v.n) \div v.d
             frac == FracDigits(Abs(v.n) % v.d, v.d, 16)
         IN  IF v.cls = "int" THEN sign \o Digits(whole)
             ELSE sign \o Digits(whole) \o <<46>> \o (IF frac = <<>> THEN <<48>> ELSE frac)

\* the text "Unit"
UnitText == <<85, 110, 105, 116>>

(***************************************************************************)
(* Type markers (stimpl.types): a closed set of tags compared by case.     *)
(* NoType stands for Python's None where the code uses it as a type.       *)
(***************************************************************************)
Unit == "Unit"
Integer == "Integer"
FloatingPoint == "FloatingPoint"
String == "String"
Boolean == "Boolean"
NoType == "None"
Types == {Unit, Integer, FloatingPoint, String, Boolean}

(***************************************************************************)
(* Interpreter State: a chain of frames, the most recent in front.         *)
(* A frame holds variable_name and value = (variable_value, variable_type);*)
(* its next_state is the rest of the chain.                                *)
(***************************************************************************)
EmptyState == <<>>

\* what get_value returns when no frame binds the name
None == <<>>

State(variable_name, variable_value, variable_type, next_state) ==
    <<[variable_name |-> variable_name, value |-> <<variable_value, variable_type>>]>>
        \o next_state

copy(self) ==
    IF self = EmptyState THEN EmptyState
    ELSE State(Head(self).variable_name, Head(self).value[1], Head(self).value[2], Tail(self))

\* a plausible bug: the frame of the same name in front is overwritten
set_value_overwrite(self, variable_name, variable_value, variable_type) ==
    IF self # EmptyState /\ Head(self).variable_name = variable_name
    THEN State(variable_name, variable_value, variable_type, Tail(self))
    ELSE State(variable_name, variable_value, variable_type, self)

set_value(self, variable_name, variable_value, variable_type) ==
    State(variable_name, variable_value, variable_type, self)

\* a plausible bug: absence is signalled by the bound payload being falsy
RECURSIVE get_value_falsy(_, _)
get_value_falsy(self, variable_name) ==
    IF self = EmptyState THEN None
    ELSE IF Head(self).variable_name = variable_name
         THEN (IF Truthy(Head(self).value[1]) THEN Head(self).value ELSE None)
         ELSE get_value_falsy(Tail(self), variable_name)

RECURSIVE get_value(_, _)
get_value(self, variable_name) ==
    IF self = EmptyState THEN None
    ELSE IF Head(self).variable_name = variable_name THEN Head(self).value
         ELSE get_value(Tail(self), variable_name)

(***************************************************************************)
(* The State class at the level of objects.  The operators above take a    *)
(* State as a value, the chain of its frames; that is sound only if no     *)
(* State object is ever changed once built, which is checked here: heap    *)
(* holds the State objects built so far, addressed 1, 2, ..., each with    *)
(* its fields variable_name, value and next_state (an address); address 0  *)
(* stands for an EmptyState object, which has no fields.  A method takes   *)
(* the heap and the address of self and yields the heap after the call;    *)
(* the object a call returns is the last of that heap.                     *)
(***************************************************************************)
VARIABLE heap

\* State.__init__: a new object with the three fields assigned
State_init(h, variable_name, variable_value, variable_type, next_state) ==
    Append(h, [variable_name |-> variable_name,
               value |-> <<variable_value, variable_type>>,
               next_state |-> next_state])

\* State.copy; EmptyState.copy builds another EmptyState, which has no fields
State_copy(h, self) ==
    IF self = 0 THEN h
    ELSE State_init(h, h[self].variable_name, h[self].value[1], h[self].value[2],
                    h[self].next_state)

\* a set_value that rebinds in place: self's fields are assigned, self is returned
State_set_value_in_place(h, self, variable_name, variable_value, variable_type) ==
    IF self = 0 THEN State_init(h, variable_name, variable_value, variable_type, self)
    ELSE [h EXCEPT ![self] = [variable_name |-> variable_name,
                              value |-> <<variable_value, variable_type>>,
                              next_state |-> h[self].next_state]]

\* State.set_value
State_set_value(h, self, variable_name, variable_value, variable_type) ==
    State_init(h, variable_name, variable_value, variable_type, self)

\* State.get_value, EmptyState.get_value
RECURSIVE State_get_value(_, _, _)
State_get_value(h, self, variable_name) ==
    IF self = 0 THEN None
    ELSE IF h[self].variable_name = variable_name THEN h[self].value
    ELSE State_get_value(h, h[self].next_state, variable_name)

\* the chain of frames read from an object: the State value it stands for
RECURSIVE Chain(_, _)
Chain(h, self) ==
    IF self = 0 THEN EmptyState
    ELSE State(h[self].variable_name, h[self].value[1], h[self].value[2],
               Chain(h, h[self].next_state))

(***************************************************************************)
(* Expressions (stimpl.expression), with the fields evaluate matches on.   *)
(***************************************************************************)
Ren == [kind |-> "Ren"]
IntLiteral(l) == [kind |-> "IntLiteral", literal |-> PyInt(l)]
FloatingPointLiteral(num, den) == [kind |-> "FloatingPointLiteral", literal |-> PyFloat(num, den)]
StringLiteral(chars) == [kind |-> "StringLiteral", literal |-> PyStr(chars)]
BooleanLiteral(b) == [kind |-> "BooleanLiteral", literal |-> PyBool(b)]
PrintNode(e) == [kind |-> "Print", to_print |-> e]
Sequence(exprs) == [kind |-> "Sequence", exprs |-> exprs]
Program(exprs) == [kind |-> "Program", exprs |-> exprs]
Variable(name) == [kind |-> "Variable", variable_name |-> name]
Assign(variable, value) == [kind |-> "Assign", variable |-> variable, value |-> value]
Binary(kind, left, right) == [kind |-> kind, left |-> left, right |-> right]
Not(e) == [kind |-> "Not", expr |-> e]
If(condition, true, false) ==
    [kind |-> "If", condition |-> condition, true |-> true, false |-> false]
While(condition, body) == [kind |-> "While", condition |-> condition, body |-> body]

ArithmeticKinds == {"Add", "Subtract", "Multiply", "Divide"}
LogicalKinds == {"And", "Or"}
RelationalKinds == {"Lt", "Lte", "Gt", "Gte", "Eq", "Ne"}
BinaryKinds == ArithmeticKinds \cup LogicalKinds \cup RelationalKinds

(***************************************************************************)
(* evaluate.  Besides the interpreter State, an evaluation carries io:     *)
(*   out     what print has written so far, one text per call;             *)
(*   tr      a record of every call of evaluate on a sub-expression that   *)
(*           has returned, in the order of the returns: the calling node   *)
(*           and its depth, the sub-expression e, the state passed (arg),  *)
(*           the value, type and state (ret) returned, what had been       *)
(*           printed at the return (out) and the number of Assign nodes    *)
(*           that completed during the call (assigned);                    *)
(*   assigns the Assign nodes that have completed, in order: the name, and *)
(*           the value and type assigned;                                  *)
(*   fuel    the number of While iterations left before the cut-off.       *)
(* A result is the returned (value, type, state) with err = "none", or     *)
(* the error raised: InterpSyntaxError, InterpTypeError, InterpMathError,  *)
(* or StillLooping when the cut-off is met.                                *)
(***************************************************************************)
Return(value, type, state, io) ==
    [value |-> value, type |-> type, state |-> state, io |-> io, err |-> "none"]

Raise(err, io) ==
    [value |-> PyNone, type |-> NoType, state |-> EmptyState, io |-> io, err |-> err]

RECURSIVE evaluate(_, _, _, _)
RECURSIVE case_Sequence_loop(_, _, _, _, _, _)
RECURSIVE case_While_loop(_, _, _, _, _, _)

\* the call evaluate(e, state) made by a node of kind node for its part part
sub(node, part, e, state, io, depth) ==
    LET r == evaluate(e, state, io, depth + 1)
    IN  IF r.err # "none" THEN r
        ELSE [r EXCEPT !.io.tr = Append(@,
                 [depth |-> depth, node |-> node, part |-> part, e |-> e, arg |-> state,
                  ret |-> r.state, value |-> r.value, type |-> r.type,
                  out |-> r.io.out,
                  assigned |-> Len(r.io.assigns) - Len(io.assigns)])]


\* case_Print without the Unit case: the payload's text is printed for every type
case_Print_payload_text(expression, state, io, depth) ==
    LET p == sub("Print", "to_print", expression.to_print, state, io, depth)
    IN  IF p.err # "none" THEN p
        ELSE Return(p.value, p.type, p.state, [p.io EXCEPT !.out = Append(@, PyText(p.value))])

case_Print(expression, state, io, depth) ==
    LET p == sub("Print", "to_print", expression.to_print, state, io, depth)
    IN  IF p.err # "none" THEN p
        ELSE LET text == IF p.type = Unit THEN UnitText ELSE PyText(p.value)
             IN  Return(p.value, p.type, p.state, [p.io EXCEPT !.out = Append(@, text)])



\* the loop going on after an expression that raised, as under try / except
case_Sequence_loop_resuming(exprs, new_value, new_type, new_state, io, depth) ==
    IF exprs = <<>> THEN Return(new_value, new_type, new_state, io)
    ELSE LET r == sub("Sequence", "expr", Head(exprs), new_state, io, depth)
         IN  IF r.err # "none"
             THEN case_Sequence_loop(Tail(exprs), new_value, new_type, new_state, r.io, depth)
             ELSE case_Sequence_loop(Tail(exprs), r.value, r.type, r.state, r.io, depth)

\* the loop without the threading: the state an expression returned is dropped
case_Sequence_loop_unthreaded(exprs, new_value, new_type, new_state, io, depth) ==
    IF exprs = <<>> THEN Return(new_value, new_type, new_state, io)
    ELSE LET r == sub("Sequence", "expr", Head(exprs), new_state, io, depth)
         IN  IF r.err # "none" THEN r
             ELSE case_Sequence_loop(Tail(exprs), r.value, r.type, new_state, r.io, depth)

case_Sequence_loop(exprs, new_value, new_type, new_state, io, depth) ==
    IF exprs = <<>> THEN Return(new_value, new_type, new_state, io)
    ELSE LET r == sub("Sequence", "expr", Head(exprs), new_state, io, depth)
         IN  IF r.err # "none" THEN r
             ELSE case_Sequence_loop(Tail(exprs), r.value, r.type, r.state, r.io, depth)

case_Sequence(expression, state, io, depth) ==
    case_Sequence_loop(expression.exprs, PyNone, Unit, state, io, depth)

case_Variable(expression, state, io, depth) ==
    LET value == get_value(state, expression.variable_name)
    IN  IF value = None THEN Raise("InterpSyntaxError", io)
        ELSE Return(value[1], value[2], state, io)

\* a plausible bug: the type of the prior binding is not compared
Assign_mismatch_unchecked(value_type, variable_type) == FALSE


\* the condition with a Unit binding taken for no binding
Assign_mismatch_unit_unbound(value_type, variable_type) ==
    value_type # variable_type /\ variable_type \notin {NoType, Unit}

\* the condition of the raise in the Assign case
Assign_mismatch(value_type, variable_type) ==
    value_type # variable_type /\ variable_type # NoType


\* case_Assign with the prior binding looked up in the incoming state
case_Assign_incoming_lookup(expression, state, io, depth) ==
    LET v == sub("Assign", "value", expression.value, state, io, depth)
    IN  IF v.err # "none" THEN v
        ELSE LET variable_from_state == get_value(state, expression.variable.variable_name)
                 variable_type ==
                     IF variable_from_state # <<>> THEN variable_from_state[2] ELSE NoType
             IN  IF Assign_mismatch(v.type, variable_type)
                 THEN Raise("InterpTypeError", v.io)
                 ELSE Return(v.value, v.type,
                             set_value(v.state, expression.variable.variable_name,
                                       v.value, v.type),
                             [v.io EXCEPT !.assigns =
                                 Append(@, [name |-> expression.variable.variable_name,
                                            value |-> v.value, type |-> v.type])])

case_Assign(expression, state, io, depth) ==
    LET v == sub("Assign", "value", expression.value, state, io, depth)
    IN  IF v.err # "none" THEN v
        ELSE LET variable_from_state == get_value(v.state, expression.variable.variable_name)
                 variable_type ==
                     IF variable_from_state # <<>> THEN variable_from_state[2] ELSE NoType
             IN  IF Assign_mismatch(v.type, variable_type)
                 THEN Raise("InterpTypeError", v.io)
                 ELSE Return(v.value, v.type,
                             set_value(v.state, expression.variable.variable_name,
                                       v.value, v.type),
                             [v.io EXCEPT !.assigns =
                                 Append(@, [name |-> expression.variable.variable_name,
                                            value |-> v.value, type |-> v.type])])

\* a plausible bug: the right operand is evaluated against the incoming state
operands_incoming_state(expression, state, io, depth) ==
    LET l == sub(expression.kind, "left", expression.left, state, io, depth)
    IN  IF l.err # "none" THEN [raised |-> TRUE, error |-> l]
        ELSE LET r == sub(expression.kind, "right", expression.right, state, l.io, depth)
             IN  IF r.err # "none" THEN [raised |-> TRUE, error |-> r]
                 ELSE [raised |-> FALSE,
                       left_value |-> l.value, left_type |-> l.type,
                       right_value |-> r.value, right_type |-> r.type,
                       new_state |-> r.state, io |-> r.io]

\* the first two statements of each of the twelve binary cases: the left
\* operand against state, the right operand against the state the left returned
operands(expression, state, io, depth) ==
    LET l == sub(expression.kind, "left", expression.left, state, io, depth)
    IN  IF l.err # "none" THEN [raised |-> TRUE, error |-> l]
        ELSE LET r == sub(expression.kind, "right", expression.right, l.state, l.io, depth)
             IN  IF r.err # "none" THEN [raised |-> TRUE, error |-> r]
                 ELSE [raised |-> FALSE,
                       left_value |-> l.value, left_type |-> l.type,
                       right_value |-> r.value, right_type |-> r.type,
                       new_state |-> r.state, io |-> r.io]

case_Add(expression, state, io, depth) ==
    LET o == operands(expression, state, io, depth)
    IN  IF o.raised THEN o.error
        ELSE IF o.left_type # o.right_type THEN Raise("InterpTypeError", o.io)
        ELSE IF o.left_type \in {Integer, String, FloatingPoint}
             THEN Return(PyAdd(o.left_value, o.right_value), o.left_type, o.new_state, o.io)
             ELSE Raise("InterpTypeError", o.io)

case_Subtract(expression, state, io, depth) ==
    LET o == operands(expression, state, io, depth)
    IN  IF o.raised THEN o.error
        ELSE IF o.left_type # o.right_type THEN Raise("InterpTypeError", o.io)
        ELSE IF o.left_type \in {Integer, FloatingPoint}
             THEN Return(PySub(o.left_value, o.right_value), o.left_type, o.new_state, o.io)
             ELSE Raise("InterpTypeError", o.io)

case_Multiply(expression, state, io, depth) ==
    LET o == operands(expression, state, io, depth)
    IN  IF o.raised THEN o.error
        ELSE IF o.left_type # o.right_type THEN Raise("InterpTypeError", o.io)
        ELSE IF o.left_type \in {Integer, FloatingPoint}
             THEN Return(PyMul(o.left_value, o.right_value), o.left_type, o.new_state, o.io)
             ELSE Raise("InterpTypeError", o.io)

\* a plausible bug: the operand types are compared before the zero check
case_Divide_types_first(expression, state, io, depth) ==
    LET o == operands(expression, state, io, depth)
    IN  IF o.raised THEN o.error
        ELSE IF o.left_type # o.right_type THEN Raise("InterpTypeError", o.io)
        ELSE IF PyEq(o.right_value, PyInt(0)) THEN Raise("InterpMathError", o.io)
        ELSE IF o.left_type = FloatingPoint
             THEN Return(PyTrueDiv(o.left_value, o.right_value), o.left_type,
                         o.new_state, o.io)
        ELSE IF o.left_type = Integer
             THEN Return(PyFloorDiv(o.left_value, o.right_value), o.left_type,
                         o.new_state, o.io)
             ELSE Raise("InterpTypeError", o.io)

case_Divide(expression, state, io, depth) ==
    LET o == operands(expression, state, io, depth)
    IN  IF o.raised THEN o.error
        ELSE IF PyEq(o.right_value, PyInt(0)) THEN Raise("InterpMathError", o.io)
        ELSE IF o.left_type # o.right_type THEN Raise("InterpTypeError", o.io)
        ELSE IF o.left_type = FloatingPoint
             THEN Return(PyTrueDiv(o.left_value, o.right_value), o.left_type,
                         o.new_state, o.io)
        ELSE IF o.left_type = Integer
             THEN Return(PyFloorDiv(o.left_value, o.right_value), o.left_type,
                         o.new_state, o.io)
             ELSE Raise("InterpTypeError", o.io)

\* a plausible bug: the right operand is skipped when the left one is false
case_And_short_circuit(expression, state, io, depth) ==
    LET l == sub("And", "left", expression.left, state, io, depth)
    IN  IF l.err # "none" THEN l
        ELSE IF l.type = Boolean /\ ~Truthy(l.value)
             THEN Return(l.value, l.type, l.state, l.io)
        ELSE LET r == sub("And", "right", expression.right, l.state, l.io, depth)
             IN  IF r.err # "none" THEN r
                 ELSE IF l.type # r.type THEN Raise("InterpTypeError", r.io)
                 ELSE IF l.type = Boolean
                      THEN Return(r.value, l.type, r.state, r.io)
                      ELSE Raise("InterpTypeError", r.io)

case_And(expression, state, io, depth) ==
    LET o == operands(expression, state, io, depth)
    IN  IF o.raised THEN o.error
        ELSE IF o.left_type # o.right_type THEN Raise("InterpTypeError", o.io)
        ELSE IF o.left_type = Boolean
             THEN Return(IF Truthy(o.left_value) THEN o.right_value ELSE o.left_value,
                         o.left_type, o.new_state, o.io)
             ELSE Raise("InterpTypeError", o.io)

case_Or(expression, state, io, depth) ==
    LET o == operands(expression, state, io, depth)
    IN  IF o.raised THEN o.error
        ELSE IF o.left_type # o.right_type THEN Raise("InterpTypeError", o.io)
        ELSE IF o.left_type = Boolean
             THEN Return(IF Truthy(o.left_value) THEN o.left_value ELSE o.right_value,
                         o.left_type, o.new_state, o.io)
             ELSE Raise("InterpTypeError", o.io)

case_Not(expression, state, io, depth) ==
    LET n == sub("Not", "expr", expression.expr, state, io, depth)
    IN  IF n.err # "none" THEN n
        ELSE IF n.type = Boolean
             THEN Return(PyBool(~Truthy(n.value)), n.type, n.state, n.io)
             ELSE Raise("InterpTypeError", n.io)

case_Lt(expression, state, io, depth) ==
    LET o == operands(expression, state, io, depth)
    IN  IF o.raised THEN o.error
        ELSE IF o.left_type # o.right_type THEN Raise("InterpTypeError", o.io)
        ELSE IF o.left_type \in {Integer, Boolean, String, FloatingPoint}
             THEN Return(PyBool(PyLess(o.left_value, o.right_value)), Boolean, o.new_state, o.io)
        ELSE IF o.left_type = Unit
             THEN Return(PyBool(FALSE), Boolean, o.new_state, o.io)
             ELSE Raise("InterpTypeError", o.io)

case_Lte(expression, state, io, depth) ==
    LET o == operands(expression, state, io, depth)
    IN  IF o.raised THEN o.error
        ELSE IF o.left_type # o.right_type THEN Raise("InterpTypeError", o.io)
        ELSE IF o.left_type \in {Integer, Boolean, String, FloatingPoint}
             THEN Return(PyBool(PyLess(o.left_value, o.right_value) \/ PyEq(o.left_value, o.right_value)), Boolean, o.new_state, o.io)
        ELSE IF o.left_type = Unit
             THEN Return(PyBool(TRUE), Boolean, o.new_state, o.io)
             ELSE Raise("InterpTypeError", o.io)

case_Gt(expression, state, io, depth) ==
    LET o == operands(expression, state, io, depth)
    IN  IF o.raised THEN o.error
        ELSE IF o.left_type # o.right_type THEN Raise("InterpTypeError", o.io)
        ELSE IF o.left_type \in {Integer, Boolean, String, FloatingPoint}
             THEN Return(PyBool(PyLess(o.right_value, o.left_value)), Boolean, o.new_state, o.io)
        ELSE IF o.left_type = Unit
             THEN Return(PyBool(FALSE), Boolean, o.new_state, o.io)
             ELSE Raise("InterpTypeError", o.io)

case_Gte(expression, state, io, depth) ==
    LET o == operands(expression, state, io, depth)
    IN  IF o.raised THEN o.error
        ELSE IF o.left_type # o.right_type THEN Raise("InterpTypeError", o.io)
        ELSE IF o.left_type \in {Integer, Boolean, String, FloatingPoint}
             THEN Return(PyBool(PyLess(o.right_value, o.left_value) \/ PyEq(o.left_value, o.right_value)), Boolean, o.new_state, o.io)
        ELSE IF o.left_type = Unit
             THEN Return(PyBool(TRUE), Boolean, o.new_state, o.io)
             ELSE Raise("InterpTypeError", o.io)

case_Eq(expression, state, io, depth) ==
    LET o == operands(expression, state, io, depth)
    IN  IF o.raised THEN o.error
        ELSE IF o.left_type # o.right_type THEN Raise("InterpTypeError", o.io)
        ELSE IF o.left_type \in {Integer, Boolean, String, FloatingPoint}
             THEN Return(PyBool(PyEq(o.left_value, o.right_value)), Boolean, o.new_state, o.io)
        ELSE IF o.left_type = Unit
             THEN Return(PyBool(TRUE), Boolean, o.new_state, o.io)
             ELSE Raise("InterpTypeError", o.io)


\* case_Ne with the Unit branch answering True
case_Ne_unit_true(expression, state, io, depth) ==
    LET o == operands(expression, state, io, depth)
    IN  IF o.raised THEN o.error
        ELSE IF o.left_type # o.right_type THEN Raise("InterpTypeError", o.io)
        ELSE IF o.left_type \in {Integer, Boolean, String, FloatingPoint}
             THEN Return(PyBool(~PyEq(o.left_value, o.right_value)), Boolean, o.new_state, o.io)
        ELSE IF o.left_type = Unit
             THEN Return(PyBool(TRUE), Boolean, o.new_state, o.io)
             ELSE Raise("InterpTypeError", o.io)

case_Ne(expression, state, io, depth) ==
    LET o == operands(expression, state, io, depth)
    IN  IF o.raised THEN o.error
        ELSE IF o.left_type # o.right_type THEN Raise("InterpTypeError", o.io)
        ELSE IF o.left_type \in {Integer, Boolean, String, FloatingPoint}
             THEN Return(PyBool(~PyEq(o.left_value, o.right_value)), Boolean, o.new_state, o.io)
        ELSE IF o.left_type = Unit
             THEN Return(PyBool(FALSE), Boolean, o.new_state, o.io)
             ELSE Raise("InterpTypeError", o.io)

\* a plausible bug: only the branch the condition selects is evaluated
case_If_selected_branch(expression, state, io, depth) ==
    LET c == sub("If", "condition", expression.condition, state, io, depth)
    IN  IF c.err # "none" THEN c
        ELSE IF c.type # Boolean THEN Raise("InterpTypeError", c.io)
        ELSE IF PyEq(c.value, PyBool(TRUE))
             THEN evaluate(expression.true, c.state, c.io, depth + 1)
             ELSE evaluate(expression.false, c.state, c.io, depth + 1)


\* case_If with branches as scopes: the state of the condition is returned
case_If_scoped(expression, state, io, depth) ==
    LET c == sub("If", "condition", expression.condition, state, io, depth)
    IN  IF c.err # "none" THEN c
        ELSE IF c.type # Boolean THEN Raise("InterpTypeError", c.io)
        ELSE LET t == sub("If", "true", expression.true, c.state, c.io, depth)
             IN  IF t.err # "none" THEN t
                 ELSE LET f == sub("If", "false", expression.false, t.state, t.io, depth)
                      IN  IF f.err # "none" THEN f
                          ELSE IF PyEq(c.value, PyBool(TRUE))
                               THEN Return(t.value, t.type, c.state, f.io)
                               ELSE Return(f.value, f.type, c.state, f.io)

case_If(expression, state, io, depth) ==
    LET c == sub("If", "condition", expression.condition, state, io, depth)
    IN  IF c.err # "none" THEN c
        ELSE IF c.type # Boolean THEN Raise("InterpTypeError", c.io)
        ELSE LET t == sub("If", "true", expression.true, c.state, c.io, depth)
             IN  IF t.err # "none" THEN t
                 ELSE LET f == sub("If", "false", expression.false, t.state, t.io, depth)
                      IN  IF f.err # "none" THEN f
                          ELSE IF PyEq(c.value, PyBool(TRUE))
                               THEN Return(t.value, t.type, f.state, f.io)
                               ELSE Return(f.value, f.type, f.state, f.io)

\* the loop "while condition_value:" of the While case
case_While_loop(condition, body, condition_value, new_state, io, depth) ==
    IF ~Truthy(condition_value) THEN Return(PyBool(FALSE), Boolean, new_state, io)
    ELSE IF io.fuel = 0 THEN Raise("StillLooping", io)
    ELSE LET b == sub("While", "body", body, new_state, [io EXCEPT !.fuel = @ - 1], depth)
         IN  IF b.err # "none" THEN b
             ELSE LET c == sub("While", "condition", condition, b.state, b.io, depth)
                  IN  IF c.err # "none" THEN c
                      ELSE case_While_loop(condition, body, c.value, c.state, c.io, depth)

\* a plausible bug: a loop that runs no iteration returns the incoming state
case_While_incoming_state(expression, state, io, depth) ==
    LET c == sub("While", "condition", expression.condition, state, io, depth)
    IN  IF c.err # "none" THEN c
        ELSE IF c.type # Boolean THEN Raise("InterpTypeError", c.io)
        ELSE IF ~Truthy(c.value) THEN Return(PyBool(FALSE), Boolean, state, c.io)
        ELSE case_While_loop(expression.condition, expression.body, c.value, c.state,
                             c.io, depth)

case_While(expression, state, io, depth) ==
    LET c == sub("While", "condition", expression.condition, state, io, depth)
    IN  IF c.err # "none" THEN c
        ELSE IF c.type # Boolean THEN Raise("InterpTypeError", c.io)
        ELSE case_While_loop(expression.condition, expression.body, c.value, c.state,
                             c.io, depth)

evaluate(expression, state, io, depth) ==
    CASE expression.kind = "Ren" -> Return(PyNone, Unit, state, io)
      [] expression.kind = "IntLiteral" -> Return(expression.literal, Integer, state, io)
      [] expression.kind = "FloatingPointLiteral" ->
             Return(expression.literal, FloatingPoint, state, io)
      [] expression.kind = "StringLiteral" -> Return(expression.literal, String, state, io)
      [] expression.kind = "BooleanLiteral" -> Return(expression.literal, Boolean, state, io)
      [] expression.kind = "Print" -> case_Print(expression, state, io, depth)
      [] expression.kind \in {"Sequence", "Program"} ->
             case_Sequence(expression, state, io, depth)
      [] expression.kind = "Variable" -> case_Variable(expression, state, io, depth)
      [] expression.kind = "Assign" -> case_Assign(expression, state, io, depth)
      [] expression.kind = "Add" -> case_Add(expression, state, io, depth)
      [] expression.kind = "Subtract" -> case_Subtract(expression, state, io, depth)
      [] expression.kind = "Multiply" -> case_Multiply(expression, state, io, depth)
      [] expression.kind = "Divide" -> case_Divide(expression, state, io, depth)
      [] expression.kind = "And" -> case_And(expression, state, io, depth)
      [] expression.kind = "Or" -> case_Or(expression, state, io, depth)
      [] expression.kind = "Not" -> case_Not(expression, state, io, depth)
      [] expression.kind = "If" -> case_If(expression, state, io, depth)
      [] expression.kind = "Lt" -> case_Lt(expression, state, io, depth)
      [] expression.kind = "Lte" -> case_Lte(expression, state, io, depth)
      [] expression.kind = "Gt" -> case_Gt(expression, state, io, depth)
      [] expression.kind = "Gte" -> case_Gte(expression, state, io, depth)
      [] expression.kind = "Eq" -> case_Eq(expression, state, io, depth)
      [] expression.kind = "Ne" -> case_Ne(expression, state, io, depth)
      [] expression.kind = "While" -> case_While(expression, state, io, depth)
      [] OTHER -> Raise("InterpSyntaxError", io)

(***************************************************************************)
(* The expressions the modelled programs are built from.  A modelled       *)
(* Program is at most MaxExprs expressions: assignments of literals,       *)
(* followed by at most one expression of any kind.                         *)
(***************************************************************************)
Names == {"x", "y"}

Literals ==
    {Ren, IntLiteral(0), IntLiteral(1), IntLiteral(2),
     FloatingPointLiteral(0, 1), FloatingPointLiteral(1, 2),
     StringLiteral(<<>>), StringLiteral(<<97>>),
     BooleanLiteral(FALSE), BooleanLiteral(TRUE)}

Variables == {Variable(n) : n \in Names}

Atoms == Literals \cup Variables

\* one literal of each type
TypeReps ==
    {Ren, IntLiteral(1), FloatingPointLiteral(1, 2), StringLiteral(<<97>>),
     BooleanLiteral(TRUE)}

\* literals whose payload is falsy
Falsy ==
    {IntLiteral(0), FloatingPointLiteral(0, 1), StringLiteral(<<>>), BooleanLiteral(FALSE)}

Increment(n) == Assign(Variable(n), Binary("Add", Variable(n), IntLiteral(1)))

\* expressions with an effect on the state or on the output
Effects ==
    {Assign(Variable("x"), IntLiteral(1)),
     Assign(Variable("y"), BooleanLiteral(FALSE)),
     PrintNode(StringLiteral(<<97>>)),
     PrintNode(Variable("x"))}

\* operand pairs where one operand has an effect the other one can see
EffectPairs ==
    {<<Assign(Variable("x"), IntLiteral(1)), Variable("x")>>,
     <<Variable("x"), Assign(Variable("x"), IntLiteral(1))>>,
     <<Assign(Variable("y"), BooleanLiteral(FALSE)), Variable("y")>>,
     <<Variable("y"), Assign(Variable("y"), BooleanLiteral(FALSE))>>,
     <<Assign(Variable("x"), IntLiteral(1)), Increment("x")>>,
     <<PrintNode(StringLiteral(<<97>>)), PrintNode(StringLiteral(<<98>>))>>,
     <<Assign(Variable("x"), Ren), Assign(Variable("y"), Variable("x"))>>}

\* Integer dividends and divisors of either sign, exact and inexact
SignedPairs ==
    {<<IntLiteral(a), IntLiteral(b)>> : a \in {7, -7, -6}, b \in {2, -2}}

ArithmeticPairs ==
    ((TypeReps \cup {Variable("x")}) \X (TypeReps \cup Falsy \cup {Variable("x")}))
        \cup EffectPairs \cup SignedPairs

LogicalPairs ==
    ({BooleanLiteral(TRUE), BooleanLiteral(FALSE), Variable("y"), IntLiteral(1), Ren}
        \X ({BooleanLiteral(TRUE), BooleanLiteral(FALSE), Variable("y"), IntLiteral(1)}
                \cup Effects))
        \cup EffectPairs

RelationalPairs ==
    ((TypeReps \cup {IntLiteral(0), BooleanLiteral(FALSE), Variable("x")})
        \X (TypeReps \cup {IntLiteral(0), BooleanLiteral(FALSE), Variable("x")}))
        \cup EffectPairs

\* values of assignments that are not literals
AssignedValues ==
    Variables
        \cup {Binary("Add", Variable("x"), IntLiteral(1)),
              Assign(Variable("x"), IntLiteral(1)),
              Sequence(<<Assign(Variable("x"), IntLiteral(0)), StringLiteral(<<97>>)>>),
              Sequence(<<Assign(Variable("x"), IntLiteral(0)), IntLiteral(2)>>)}

Conditions ==
    {BooleanLiteral(TRUE), BooleanLiteral(FALSE), Variable("y"), IntLiteral(1), Ren,
     Assign(Variable("y"), BooleanLiteral(TRUE))}

Branches ==
    {IntLiteral(1), Variable("x"),
     Assign(Variable("x"), IntLiteral(1)),
     Increment("x"),
     PrintNode(StringLiteral(<<97>>)),
     Sequence(<<PrintNode(StringLiteral(<<98>>)), StringLiteral(<<98>>)>>)}

\* conditions of loops: constants, a flag, a counter below a bound, and
\* conditions whose type depends on the flag
LoopConditions ==
    {BooleanLiteral(FALSE), IntLiteral(0), Variable("y"),
     Binary("Lt", Variable("x"), IntLiteral(2)),
     Binary("Lt", Increment("x"), IntLiteral(2)),
     If(Variable("y"), BooleanLiteral(TRUE), IntLiteral(0)),
     If(Variable("y"), BooleanLiteral(TRUE), IntLiteral(1))}

Bodies ==
    {Ren,
     Increment("x"),
     Assign(Variable("y"), BooleanLiteral(FALSE)),
     Sequence(<<PrintNode(Variable("x")), Increment("x")>>)}

\* what Print is given: values of every type, and expressions that print
Printed ==
    Atoms \cup {PrintNode(StringLiteral(<<97>>)),
                Sequence(<<PrintNode(StringLiteral(<<98>>)), IntLiteral(1)>>)}

ExprLists ==
    {<<>>} \cup {<<a>> : a \in Effects}
           \cup {<<a, b>> : a \in Effects, b \in {Variable("x"), Ren, PrintNode(Variable("y"))}}
           \cup {<<Variable("x"), PrintNode(StringLiteral(<<97>>)), Increment("x")>>}

(***************************************************************************)
(* run_stimpl on a Program: the Program case of evaluate runs its loop     *)
(* over the top-level expressions, one call of evaluate per iteration.     *)
(*   pc         "running" between two iterations, "evaluated" when the     *)
(*              call of an iteration has returned and its result is not    *)
(*              yet bound, "returned" / "raised" / "looping" at the end    *)
(*   n_exprs    the number of top-level expressions evaluated              *)
(*   last       whether the expression called is the last of the Program   *)
(*   expr       the loop variable, while its call is being bound           *)
(*   new_value, new_type, new_state   the locals of the loop               *)
(*   result     what the call evaluate(expr, new_state) returned or raised *)
(*   out        what has been printed                                      *)
(*   assigns    the completed Assign nodes whose state was bound           *)
(* The run takes its States as values and leaves heap alone.               *)
(***************************************************************************)
VARIABLES pc, n_exprs, last, expr, new_value, new_type, new_state, result, out, assigns

run_vars == <<pc, n_exprs, last, expr, new_value, new_type, new_state, result, out, assigns>>

vars == <<pc, n_exprs, last, expr, new_value, new_type, new_state, result, out, assigns, heap>>

NoExpr == [kind |-> "none"]

NoIO == [out |-> <<>>, tr |-> <<>>, assigns |-> <<>>, fuel |-> 0]

NoResult == Raise("none", NoIO)

\* run_stimpl: state = EmptyState(); the Program case: None, Unit(), state
Init ==
    /\ pc = "running"
    /\ n_exprs = 0
    /\ last = FALSE
    /\ expr = NoExpr
    /\ new_value = PyNone
    /\ new_type = Unit
    /\ new_state = EmptyState
    /\ result = NoResult
    /\ out = <<>>
    /\ assigns = <<>>
    /\ heap = <<>>

\* one call new_value, new_type, new_state = evaluate(expr, new_state) of the loop
\* of the Program, up to the return of evaluate; is_last: no expression follows
Call(e, is_last) ==
    /\ pc = "running"
    /\ ~last
    /\ n_exprs < MaxExprs
    /\ LET r == evaluate(e, new_state,
                         [out |-> out, tr |-> <<>>, assigns |-> assigns, fuel |-> MaxIter], 0)
       IN  /\ result' = r
           /\ out' = r.io.out
           /\ pc' = IF r.err = "none" THEN "evaluated"
                    ELSE IF r.err = "StillLooping" THEN "looping" ELSE "raised"
    /\ expr' = e
    /\ last' = is_last
    /\ n_exprs' = n_exprs + 1
    /\ UNCHANGED <<new_value, new_type, new_state, assigns, heap>>

\* the returned triple is bound to the locals and the loop goes on
Bind ==
    /\ pc = "evaluated"
    /\ new_value' = result.value
    /\ new_type' = result.type
    /\ new_state' = result.state
    /\ assigns' = result.io.assigns
    /\ expr' = NoExpr
    /\ result' = NoResult
    /\ pc' = "running"
    /\ UNCHANGED <<n_exprs, last, out, heap>>

\* the loop is over: evaluate and run_stimpl return the locals
Finish ==
    /\ pc = "running"
    /\ pc' = "returned"
    /\ UNCHANGED <<n_exprs, last, expr, new_value, new_type, new_state, result, out, assigns, heap>>

EvalAssign == \E n \in Names, v \in Literals : Call(Assign(Variable(n), v), FALSE)

EvalAssignFrom == \E n \in Names, v \in AssignedValues : Call(Assign(Variable(n), v), TRUE)

EvalLiteral == \E e \in Literals : Call(e, TRUE)

EvalVariable == \E e \in Variables : Call(e, TRUE)

EvalPrint == \E e \in Printed : Call(PrintNode(e), TRUE)

EvalSequence == \E l \in ExprLists : Call(Sequence(l), TRUE)

\* a Program as a node of the tree: the same case of evaluate as Sequence
EvalProgram == \E l \in ExprLists : Call(Program(l), TRUE)

EvalArithmetic ==
    \E k \in ArithmeticKinds, p \in ArithmeticPairs : Call(Binary(k, p[1], p[2]), TRUE)

EvalLogical ==
    \E k \in LogicalKinds, p \in LogicalPairs : Call(Binary(k, p[1], p[2]), TRUE)

EvalNot == \E e \in Atoms : Call(Not(e), TRUE)

EvalRelational ==
    \E k \in RelationalKinds, p \in RelationalPairs : Call(Binary(k, p[1], p[2]), TRUE)

EvalIf == \E c \in Conditions, t \in Branches, f \in Branches : Call(If(c, t, f), TRUE)

EvalWhile == \E c \in LoopConditions, b \in Bodies : Call(While(c, b), TRUE)

\* a node of a kind evaluate has no case for
EvalUnhandled == Call([kind |-> "Unhandled"], TRUE)

Next ==
    \/ EvalAssign
    \/ EvalAssignFrom
    \/ EvalLiteral
    \/ EvalVariable
    \/ EvalPrint
    \/ EvalSequence
    \/ EvalProgram
    \/ EvalArithmetic
    \/ EvalLogical
    \/ EvalNot
    \/ EvalRelational
    \/ EvalIf
    \/ EvalWhile
    \/ EvalUnhandled
    \/ Bind
    \/ Finish

Spec == Init /\ [][Next]_vars

(***************************************************************************)
(* The State objects on their own: from no object, any method of the class *)
(* that builds a State is called on any object built so far, or on an      *)
(* EmptyState, with any name and any (value, type) pair.  get_value builds *)
(* nothing and is not a step.                                              *)
(***************************************************************************)
HeapValues == {<<PyInt(0), Integer>>, <<PyStr(<<97>>), String>>}

CallSetValue ==
    /\ Len(heap) < MaxCells
    /\ \E self \in 0..Len(heap), variable_name \in Names, v \in HeapValues :
           heap' = State_set_value(heap, self, variable_name, v[1], v[2])
    /\ UNCHANGED run_vars

CallCopy ==
    /\ Len(heap) < MaxCells
    /\ \E self \in 0..Len(heap) : heap' = State_copy(heap, self)
    /\ UNCHANGED run_vars

HeapNext == CallSetValue \/ CallCopy

HeapSpec == Init /\ [][HeapNext]_vars

(***************************************************************************)
(* Properties.  When pc is "evaluated", "raised" or "looping", expr is the *)
(* expression last called, new_state is the state it was called with and   *)
(* result is what the call returned or raised.                             *)
(***************************************************************************)
Called == pc \in {"evaluated", "raised", "looping"}

IsPart(ev) == ev.depth = 0

\* the calls made by the node expr itself that have returned, in order
Parts == SelectSeq(result.io.tr, IsPart)

\* whether some frame of the chain binds the name
Bound(chain, name) == \E i \in 1..Len(chain) : chain[i].variable_name = name

\* the first frame of the chain that binds the name
FirstFrame(chain, name) ==
    chain[CHOOSE i \in 1..Len(chain) :
              /\ chain[i].variable_name = name
              /\ \A j \in 1..(i - 1) : chain[j].variable_name # name]

\* C1: an Assign whose value has been evaluated raises InterpTypeError when the
\* most recent binding of its name has another type than the value, and returns,
\* with the name bound to the value, when no frame binds the name (the bindings
\* are those of the state the value's evaluation returned).
C1_AssignTypeRule ==
    (Called /\ expr.kind = "Assign" /\ Parts # <<>>) =>
        LET name == expr.variable.variable_name
            v == Parts[1]
        IN  /\ (Bound(v.ret, name) /\ FirstFrame(v.ret, name).value[2] # v.type)
                   => (pc = "raised" /\ result.err = "InterpTypeError")
            /\ ~Bound(v.ret, name)
                   => /\ pc = "evaluated"
                      /\ Head(result.state).variable_name = name
                      /\ Head(result.state).value = <<v.value, v.type>>
                      /\ Tail(result.state) = v.ret

\* an Assign of a String to a name bound to an Integer has raised
C1_Witness ==
    /\ pc = "raised"
    /\ expr = Assign(Variable("x"), StringLiteral(<<97>>))
    /\ Bound(new_state, "x")
    /\ FirstFrame(new_state, "x").value[2] = Integer
    /\ result.err = "InterpTypeError"

\* the frames of the chain that bind the name, the oldest first
RECURSIVE FramesOf(_, _)
FramesOf(chain, name) ==
    IF chain = <<>> THEN <<>>
    ELSE FramesOf(Tail(chain), name)
             \o (IF Head(chain).variable_name = name THEN <<Head(chain).value>> ELSE <<>>)

\* the (value, type) pairs assigned to the name, the oldest first
RECURSIVE AssignedTo(_, _)
AssignedTo(log, name) ==
    IF log = <<>> THEN <<>>
    ELSE (IF Head(log).name = name THEN <<<<Head(log).value, Head(log).type>>>> ELSE <<>>)
             \o AssignedTo(Tail(log), name)

\* the chain holds, for the name, one frame per assignment in the log, in the
\* order of the assignments, and the lookup of the name yields the last of them
FramesMatch(chain, log, name) ==
    /\ FramesOf(chain, name) = AssignedTo(log, name)
    /\ AssignedTo(log, name) # <<>>
           => get_value(chain, name) = AssignedTo(log, name)[Len(AssignedTo(log, name))]

\* C2: after N completed assignments to a name the chain holds N frames for it,
\* those the assignments added, none removed or overwritten, and get_value of the
\* name returns the value and type of the most recent one.
C2_AllAssignmentsKept ==
    \A name \in Names :
        /\ pc \in {"running", "returned"} => FramesMatch(new_state, assigns, name)
        /\ pc = "evaluated" => FramesMatch(result.state, result.io.assigns, name)

\* three assignments to x have completed and the chain holds their three frames
C2_Witness ==
    /\ pc = "returned"
    /\ Len(AssignedTo(assigns, "x")) = 3
    /\ Len(FramesOf(new_state, "x")) = 3
    /\ get_value(new_state, "x") = <<PyInt(2), Integer>>

\* C3: an If whose condition is a Boolean and that returns has evaluated its
\* condition, its true branch and its false branch once each, in this order, each
\* against the state the step before returned; it returns the value and type of
\* the true branch when the condition is true and of the false branch otherwise,
\* and the state the false branch returned.
C3_IfEvaluatesBothBranches ==
    (pc = "evaluated" /\ expr.kind = "If") =>
        /\ Len(Parts) = 3
        /\ Parts[1].part = "condition" /\ Parts[1].arg = new_state
        /\ Parts[1].type = Boolean
        /\ Parts[2].part = "true" /\ Parts[2].arg = Parts[1].ret
        /\ Parts[3].part = "false" /\ Parts[3].arg = Parts[2].ret
        /\ result.state = Parts[3].ret
        /\ <<result.value, result.type>> =
               IF Parts[1].value = PyBool(TRUE)
               THEN <<Parts[2].value, Parts[2].type>>
               ELSE <<Parts[3].value, Parts[3].type>>

\* If(true, Print("a"), (Print("b"); "b")) has printed a and then b and returned a
C3_Witness ==
    /\ pc = "evaluated"
    /\ expr = If(BooleanLiteral(TRUE), PrintNode(StringLiteral(<<97>>)),
                 Sequence(<<PrintNode(StringLiteral(<<98>>)), StringLiteral(<<98>>)>>))
    /\ out = <<<<97>>, <<98>>>>
    /\ result.value = PyStr(<<97>>)

\* the right operand of a Divide that has evaluated both operands is Integer 0
\* or FloatingPoint 0.0
ZeroDivisor(ev) ==
    \/ ev.type = Integer /\ ev.value = PyInt(0)
    \/ ev.type = FloatingPoint /\ ev.value = PyFloat(0, 1)

\* C4: a Divide whose operands both evaluate and whose right operand is Integer 0
\* or FloatingPoint 0.0 raises InterpMathError, whatever the type of the left one.
C4_DivideByZeroIsMathError ==
    (Called /\ expr.kind = "Divide" /\ Len(Parts) = 2 /\ ZeroDivisor(Parts[2])) =>
        (pc = "raised" /\ result.err = "InterpMathError")

\* a String divided by Integer 0 has raised InterpMathError
C4_Witness ==
    /\ pc = "raised"
    /\ expr.kind = "Divide"
    /\ Len(Parts) = 2
    /\ Parts[1].type = String
    /\ Parts[2].type = Integer /\ Parts[2].value = PyInt(0)
    /\ result.err = "InterpMathError"

\* the calls of the condition among the calls the While node has made
ConditionCalls == {i \in 1..Len(Parts) : Parts[i].part = "condition"}

\* C5: a While that has ended and one of whose condition evaluations, the first
\* or a later one, yielded another type than Boolean has raised InterpTypeError.
C5_WhileConditionTypeChecked ==
    (pc \in {"evaluated", "raised"} /\ expr.kind = "While") =>
        ((\E i \in ConditionCalls : Parts[i].type # Boolean)
             => (pc = "raised" /\ result.err = "InterpTypeError"))

\* what the code does check: the type the first evaluation of the condition yields
While_FirstConditionTypeChecked ==
    (Called /\ expr.kind = "While" /\ Parts # <<>> /\ Parts[1].type # Boolean) =>
        (pc = "raised" /\ result.err = "InterpTypeError" /\ Len(Parts) = 1)

\* C6: a While that returns returns false of type Boolean and the state its last
\* evaluation of the condition returned, also when the body never ran.
C6_WhileReturnsFalse ==
    (pc = "evaluated" /\ expr.kind = "While") =>
        /\ result.value = PyBool(FALSE)
        /\ result.type = Boolean
        /\ Parts # <<>>
        /\ Parts[Len(Parts)].part = "condition"
        /\ result.state = Parts[Len(Parts)].ret

\* a loop has returned without an iteration, and its only evaluation of the
\* condition has added a frame to the state
C6_Witness ==
    /\ pc = "evaluated"
    /\ expr.kind = "While"
    /\ expr.condition = Binary("Lt", Increment("x"), IntLiteral(2))
    /\ Len(Parts) = 1
    /\ result.state # new_state
    /\ Tail(result.state) = new_state
    /\ result.value = PyBool(FALSE)

\* C7: a While that returns has evaluated condition and body in turn, each
\* against the state the step before returned; every evaluation of the condition
\* but the last has yielded true and the last one has yielded false.
C7_WhileAlternates ==
    (pc = "evaluated" /\ expr.kind = "While") =>
        /\ Len(Parts) % 2 = 1
        /\ \A i \in 1..Len(Parts) :
               /\ Parts[i].part = IF i % 2 = 1 THEN "condition" ELSE "body"
               /\ Parts[i].arg = IF i = 1 THEN new_state ELSE Parts[i - 1].ret
               /\ (i % 2 = 1 /\ i < Len(Parts))
                      => (Parts[i].type = Boolean /\ Parts[i].value = PyBool(TRUE))
        /\ Parts[Len(Parts)].type = Boolean
        /\ Parts[Len(Parts)].value = PyBool(FALSE)

\* what the code does: the loop goes on while the payload of the condition is
\* truthy, whatever its type, and ends at the first falsy one
While_AlternatesOnTruthiness ==
    (pc = "evaluated" /\ expr.kind = "While") =>
        /\ Len(Parts) % 2 = 1
        /\ \A i \in 1..Len(Parts) :
               /\ Parts[i].part = IF i % 2 = 1 THEN "condition" ELSE "body"
               /\ Parts[i].arg = IF i = 1 THEN new_state ELSE Parts[i - 1].ret
               /\ (i % 2 = 1 /\ i < Len(Parts)) => Truthy(Parts[i].value)
        /\ ~Truthy(Parts[Len(Parts)].value)

\* the loop "while x < 2: x = x + 1" started with x an Integer i <= 2 returns
\* after 2 - i evaluations of the body and one more of the condition
While_CounterLoopTerminates ==
    (Called /\ expr = While(Binary("Lt", Variable("x"), IntLiteral(2)), Increment("x"))
            /\ Bound(new_state, "x") /\ FirstFrame(new_state, "x").value[2] = Integer) =>
        LET i == FirstFrame(new_state, "x").value[1].n
        IN  /\ pc = "evaluated"
            /\ Cardinality(ConditionCalls) = (2 - i) + 1
            /\ Len(Parts) = 2 * (2 - i) + 1
            /\ get_value(result.state, "x") = <<PyInt(2), Integer>>

\* C8: And and Or evaluate the left and then the right operand, whatever the
\* left one yields: when they return both calls have returned, and once the left
\* operand is evaluated the print or the binding of the right one takes place.
C8_AndOrEvaluateBothOperands ==
    (Called /\ expr.kind \in LogicalKinds) =>
        /\ pc = "evaluated"
               => /\ Len(Parts) = 2
                  /\ Parts[1].part = "left" /\ Parts[2].part = "right"
                  /\ Parts[2].arg = Parts[1].ret
                  /\ result.state = Parts[2].ret
        /\ (Parts # <<>> /\ expr.right = PrintNode(StringLiteral(<<97>>)))
               => /\ Len(Parts) = 2
                  /\ out # <<>> /\ out[Len(out)] = <<97>>
        /\ (Parts # <<>> /\ expr.right = Assign(Variable("x"), IntLiteral(1))
                /\ ~Bound(Parts[1].ret, "x"))
               => /\ Len(Parts) = 2
                  /\ Parts[2].ret = set_value(Parts[1].ret, "x", PyInt(1), Integer)

\* And(false, y := false) has returned false and y is bound
C8_Witness ==
    /\ pc = "evaluated"
    /\ expr = Binary("And", BooleanLiteral(FALSE), Assign(Variable("y"), BooleanLiteral(FALSE)))
    /\ ~Bound(new_state, "y")
    /\ Bound(result.state, "y")
    /\ result.value = PyBool(FALSE)

\* C9: each of the twelve binary nodes evaluates its left operand against the
\* incoming state and its right operand against the state the left one returned,
\* and returns the state the right one returned; a binding the left operand makes
\* is seen by the right one, a binding the right one makes is not seen by the left.
C9_BinaryOperandsThreadState ==
    (Called /\ expr.kind \in BinaryKinds) =>
        /\ Len(Parts) <= 2
        /\ Len(Parts) >= 1 => (Parts[1].part = "left" /\ Parts[1].arg = new_state)
        /\ Len(Parts) = 2 => (Parts[2].part = "right" /\ Parts[2].arg = Parts[1].ret)
        /\ pc = "evaluated" => (Len(Parts) = 2 /\ result.state = Parts[2].ret)
        /\ (expr.left = Assign(Variable("x"), IntLiteral(1)) /\ expr.right = Variable("x")
                /\ Parts # <<>>)
               => (Len(Parts) = 2 /\ Parts[2].value = PyInt(1))
        /\ (expr.left.kind = "Variable" /\ ~Bound(new_state, expr.left.variable_name))
               => (Parts = <<>> /\ pc = "raised" /\ result.err = "InterpSyntaxError")

\* (x := 1) < x, with x not bound before, has returned false
C9_Witness ==
    /\ pc = "evaluated"
    /\ expr = Binary("Lt", Assign(Variable("x"), IntLiteral(1)), Variable("x"))
    /\ ~Bound(new_state, "x")
    /\ result.value = PyBool(FALSE)
    /\ result.state = Parts[2].ret

\* C10: Variable(name) raises InterpSyntaxError exactly when no frame of the state
\* binds the name; otherwise it returns the value and type of the first frame that
\* binds it, also when the payload is None or falsy, and the state unchanged.
C10_VariableLookup ==
    (Called /\ expr.kind = "Variable") =>
        /\ (pc = "raised" /\ result.err = "InterpSyntaxError")
               <=> ~Bound(new_state, expr.variable_name)
        /\ Bound(new_state, expr.variable_name)
               => /\ pc = "evaluated"
                  /\ <<result.value, result.type>>
                         = FirstFrame(new_state, expr.variable_name).value
                  /\ result.state = new_state

\* a variable bound to the Unit value has been read
C10_Witness ==
    /\ pc = "evaluated"
    /\ expr = Variable("x")
    /\ result.value = PyNone
    /\ result.type = Unit

(***************************************************************************)
(* C11.  When both operands of a relational node have type Unit, the node  *)
(* returns: Eq, Lte and Gte the value true, Lt, Gt and Ne the value false, *)
(* each with type Boolean.                                                 *)
(***************************************************************************)
BothUnit ==
    /\ Called
    /\ expr.kind \in RelationalKinds
    /\ Len(Parts) = 2
    /\ Parts[1].type = Unit
    /\ Parts[2].type = Unit

C11_UnitComparisons ==
    BothUnit =>
        /\ pc = "evaluated"
        /\ result.type = Boolean
        /\ result.value = PyBool(expr.kind \in {"Eq", "Lte", "Gte"})
        /\ result.value.cls = "bool"

C11_Witness ==
    /\ BothUnit
    /\ expr = Binary("Ne", Variable("x"), Ren)
    /\ result.value = PyBool(FALSE)

(***************************************************************************)
(* C12.  For Integer operands a and b with b not zero, Divide returns the  *)
(* floor of a / b, rounded toward negative infinity (7 / 2 is 3 and        *)
(* -7 / 2 is -4), with type Integer: the returned q is the one integer     *)
(* with q * b <= a < (q + 1) * b when b > 0, and with                      *)
(* (q + 1) * b < a <= q * b when b < 0.                                    *)
(***************************************************************************)
IntegerDivision ==
    /\ Called
    /\ expr.kind = "Divide"
    /\ Len(Parts) = 2
    /\ Parts[1].type = Integer
    /\ Parts[2].type = Integer
    /\ Parts[2].value # PyInt(0)

C12_IntegerDivideFloors ==
    IntegerDivision =>
        /\ pc = "evaluated"
        /\ result.type = Integer
        /\ result.value.cls = "int"
        /\ LET a == Parts[1].value.n
               b == Parts[2].value.n
               q == result.value.n
           IN  /\ result.value = PyInt(q)
               /\ b > 0 => q * b <= a /\ a < (q + 1) * b
               /\ b < 0 => (q + 1) * b < a /\ a <= q * b

C12_Witness ==
    /\ IntegerDivision
    /\ expr = Binary("Divide", IntLiteral(-7), IntLiteral(2))
    /\ result.value = PyInt(-4)

\* the claim's other example: 7 / 2 is 3
C12_WitnessPositive ==
    /\ IntegerDivision
    /\ expr = Binary("Divide", IntLiteral(7), IntLiteral(2))
    /\ result.value = PyInt(3)

(***************************************************************************)
(* C13.  A binary node whose two operands have evaluated (for Divide: with *)
(* a right value that is not zero) fails with a Type error exactly when    *)
(* the operand types differ or their common type is outside the node's     *)
(* valid set, which is Integer, FloatingPoint, String for Add; Integer,    *)
(* FloatingPoint for Subtract, Multiply, Divide; Boolean for And, Or; all  *)
(* five types for a relational node.  Otherwise it returns.                *)
(***************************************************************************)
ValidTypes(kind) ==
    CASE kind = "Add" -> {Integer, FloatingPoint, String}
      [] kind \in {"Subtract", "Multiply", "Divide"} -> {Integer, FloatingPoint}
      [] kind \in LogicalKinds -> {Boolean}
      [] kind \in RelationalKinds -> {Unit, Integer, FloatingPoint, String, Boolean}

IllTyped ==
    \/ Parts[1].type # Parts[2].type
    \/ Parts[1].type \notin ValidTypes(expr.kind)

OperandsEvaluated ==
    /\ Called
    /\ expr.kind \in BinaryKinds
    /\ Len(Parts) = 2

C13_TypeErrorIffIllTyped ==
    (OperandsEvaluated /\ (expr.kind = "Divide" => ~ZeroDivisor(Parts[2]))) =>
        /\ IllTyped => pc = "raised" /\ result.err = "InterpTypeError"
        /\ ~IllTyped => pc = "evaluated"

\* the same with the zero test of the code, right_result == 0, which a
\* Boolean False passes as well: the rule holds for every other binary node
Binary_TypeErrorIffIllTyped ==
    (OperandsEvaluated /\ (expr.kind = "Divide" => ~PyEq(Parts[2].value, PyInt(0)))) =>
        /\ IllTyped => pc = "raised" /\ result.err = "InterpTypeError"
        /\ ~IllTyped => pc = "evaluated"

\* a well-typed binary node is reached and returns
Binary_WellTypedReached ==
    /\ OperandsEvaluated
    /\ ~IllTyped
    /\ expr.kind = "Add"
    /\ Parts[1].type = String
    /\ pc = "evaluated"

(***************************************************************************)
(* C19.  Divide fails with a Math error only when its right operand has    *)
(* evaluated to Integer 0 or FloatingPoint 0.0; with a right operand of    *)
(* type Boolean, String or Unit it fails with a Type error, never with a   *)
(* Math error.                                                             *)
(***************************************************************************)
DivideOperandsEvaluated ==
    /\ Called
    /\ expr.kind = "Divide"
    /\ Len(Parts) = 2

C19_MathErrorOnlyForNumericZero ==
    DivideOperandsEvaluated =>
        /\ result.err = "InterpMathError" => ZeroDivisor(Parts[2])
        /\ Parts[2].type \in {Boolean, String, Unit} =>
               pc = "raised" /\ result.err = "InterpTypeError"

\* what the code does: the Math error is raised exactly when the right
\* value passes right_result == 0, which Python's False does
Divide_MathErrorIffEqualsZero ==
    DivideOperandsEvaluated =>
        (result.err = "InterpMathError" <=> PyEq(Parts[2].value, PyInt(0)))

\* an empty String or Unit right operand gives a Type error, as does True
Divide_OtherRightOperandsTypeError ==
    (DivideOperandsEvaluated /\ Parts[2].type \in {Boolean, String, Unit}
        /\ Parts[2].value # PyBool(FALSE)) =>
        pc = "raised" /\ result.err = "InterpTypeError"

Divide_EmptyStringReached ==
    /\ DivideOperandsEvaluated
    /\ Parts[2].value = PyStr(<<>>)
    /\ result.err = "InterpTypeError"

(***************************************************************************)
(* C18.  Assign checks the prior binding's type in the state its value     *)
(* expression returned: when the name has no binding in the incoming state *)
(* and the value expression binds it with a type T and then yields a value *)
(* of another type U, the Assign fails with a Type error.                  *)
(***************************************************************************)
BoundByValueExpression ==
    /\ Called
    /\ expr.kind = "Assign"
    /\ Parts # <<>>
    /\ ~Bound(new_state, expr.variable.variable_name)
    /\ Bound(Parts[1].ret, expr.variable.variable_name)

C18_AssignChecksReturnedState ==
    BoundByValueExpression =>
        LET T == FirstFrame(Parts[1].ret, expr.variable.variable_name).value[2]
            U == Parts[1].type
        IN  /\ U # T => pc = "raised" /\ result.err = "InterpTypeError"
            /\ U = T => pc = "evaluated" /\ result.type = U

C18_Witness ==
    /\ BoundByValueExpression
    /\ expr = Assign(Variable("x"),
                     Sequence(<<Assign(Variable("x"), IntLiteral(0)), StringLiteral(<<97>>)>>))
    /\ new_state = EmptyState
    /\ Parts[1].type = String
    /\ get_value(Parts[1].ret, "x") = <<PyInt(0), Integer>>
    /\ pc = "raised"
    /\ result.err = "InterpTypeError"

(***************************************************************************)
(* C17.  Print(e) whose e has evaluated emits exactly one output item,     *)
(* after all the output of e: the text Unit when e has type Unit, the      *)
(* textual form of the value otherwise; and it returns exactly the value,  *)
(* type and state of e.  The textual forms are written out: 0, 1, 2, 0.0,  *)
(* 0.5, the characters of a String, False and True.                        *)
(***************************************************************************)
TextualForm(value, type) ==
    CASE type = Unit -> <<85, 110, 105, 116>>
      [] type = Integer /\ value = PyInt(0) -> <<48>>
      [] type = Integer /\ value = PyInt(1) -> <<49>>
      [] type = Integer /\ value = PyInt(2) -> <<50>>
      [] type = FloatingPoint /\ value = PyFloat(0, 1) -> <<48, 46, 48>>
      [] type = FloatingPoint /\ value = PyFloat(1, 2) -> <<48, 46, 53>>
      [] type = String -> value.s
      [] type = Boolean /\ value = PyBool(FALSE) -> <<70, 97, 108, 115, 101>>
      [] type = Boolean /\ value = PyBool(TRUE) -> <<84, 114, 117, 101>>

PrintEvaluated ==
    /\ Called
    /\ expr.kind = "Print"
    /\ Parts # <<>>

C17_PrintEmitsOneItem ==
    PrintEvaluated =>
        /\ pc = "evaluated"
        /\ Len(Parts) = 1
        /\ Parts[1].e = expr.to_print
        /\ Parts[1].arg = new_state
        /\ out = Append(Parts[1].out, TextualForm(Parts[1].value, Parts[1].type))
        /\ result.value = Parts[1].value
        /\ result.type = Parts[1].type
        /\ result.state = Parts[1].ret

\* Print(Ren) has printed Unit
C17_Witness ==
    /\ PrintEvaluated
    /\ expr = PrintNode(Ren)
    /\ out = <<UnitText>>
    /\ result.value = PyNone
    /\ result.type = Unit

\* the item of Print(Print("a")) comes after the output of its operand
C17_WitnessNested ==
    /\ PrintEvaluated
    /\ expr = PrintNode(PrintNode(StringLiteral(<<97>>)))
    /\ Parts[1].out = <<<<97>>>>
    /\ out = <<<<97>>, <<97>>>>

(***************************************************************************)
(* C16.  A Sequence or Program that has returned has evaluated its         *)
(* expressions in list order, the first against the incoming state and     *)
(* each other one against the state the one before returned, and returns   *)
(* the value, type and state of the last; with an empty list it returns    *)
(* the absence-of-value, Unit and the incoming state unchanged.  So does   *)
(* the Program run_stimpl is given.                                        *)
(***************************************************************************)
SequenceReturned ==
    /\ pc = "evaluated"
    /\ expr.kind \in {"Sequence", "Program"}

C16_SequenceThreadsInOrder ==
    /\ SequenceReturned =>
           /\ Len(Parts) = Len(expr.exprs)
           /\ \A i \in 1..Len(Parts) :
                  /\ Parts[i].e = expr.exprs[i]
                  /\ Parts[i].arg = IF i = 1 THEN new_state ELSE Parts[i - 1].ret
           /\ IF expr.exprs = <<>>
              THEN /\ result.value = PyNone
                   /\ result.type = Unit
                   /\ result.state = new_state
              ELSE /\ result.value = Parts[Len(Parts)].value
                   /\ result.type = Parts[Len(Parts)].type
                   /\ result.state = Parts[Len(Parts)].ret
    /\ (pc = "returned" /\ n_exprs = 0) =>
           /\ new_value = PyNone
           /\ new_type = Unit
           /\ new_state = EmptyState

\* three expressions in a row, the third reading what the first state holds
C16_Witness ==
    /\ SequenceReturned
    /\ expr = Sequence(<<Variable("x"), PrintNode(StringLiteral(<<97>>)), Increment("x")>>)
    /\ Len(Parts) = 3
    /\ new_state # EmptyState
    /\ result.state = Parts[3].ret
    /\ Len(result.state) = Len(new_state) + 1

\* the empty Sequence after an assignment: the incoming state comes back
C16_WitnessEmpty ==
    /\ SequenceReturned
    /\ expr = Sequence(<<>>)
    /\ new_state # EmptyState
    /\ result.state = new_state
    /\ result.type = Unit

(***************************************************************************)
(* C20.  When evaluate(e, s) returns a state s', s' is s with zero or more *)
(* frames added in front, as many as Assign evaluations completed during   *)
(* that evaluation: only Assign adds a frame, one per completion, and no   *)
(* node removes one.  Stated of the call of the Program's loop and of      *)
(* every nested call of evaluate that returned during it.                  *)
(***************************************************************************)
Extends(s, t, k) ==
    /\ k >= 0
    /\ Len(t) = Len(s) + k
    /\ SubSeq(t, k + 1, Len(t)) = s

C20_FramesAddedByAssignOnly ==
    pc = "evaluated" =>
        /\ Extends(new_state, result.state, Len(result.io.assigns) - Len(assigns))
        /\ \A i \in 1..Len(result.io.tr) :
               Extends(result.io.tr[i].arg, result.io.tr[i].ret, result.io.tr[i].assigned)
        /\ IF expr.kind = "Assign"
           THEN /\ Len(Parts) = 1
                /\ Tail(result.state) = Parts[1].ret
                /\ Head(result.state).variable_name = expr.variable.variable_name
           ELSE IF Parts = <<>> THEN result.state = new_state
           ELSE result.state = Parts[Len(Parts)].ret

\* an If whose two branches each completed an Assign returned two more frames
C20_Witness ==
    /\ pc = "evaluated"
    /\ expr.kind = "If"
    /\ new_state # EmptyState
    /\ Len(result.io.assigns) = Len(assigns) + 2
    /\ Len(result.state) = Len(new_state) + 2
    /\ SubSeq(result.state, 3, Len(result.state)) = new_state

\* a While whose body assigns: one frame for each completed iteration
C20_WitnessLoop ==
    /\ pc = "evaluated"
    /\ expr.kind = "While"
    /\ Len(result.state) = Len(new_state) + 2
    /\ Len(Parts) = 5

(***************************************************************************)
(* C15.  When the evaluation of a sub-expression raises a Syntax, Type or  *)
(* Math error the whole run ends at once with that error kind.  Of a step  *)
(* to pc = "raised", with k the number of sub-expressions of the node      *)
(* that had returned, in their order of evaluation: either the node        *)
(* itself raised after them, having printed nothing more, or the raise is  *)
(* that of its next sub-expression, evaluated against the state the k-th   *)
(* returned: the same error kind and the output that sub-expression had    *)
(* made when it raised, no later sub-expression having run.  No value,     *)
(* type or state is bound, no binding is recorded, and no step follows.    *)
(* Conversely a node returns only when each of its sub-expressions has     *)
(* returned: an error is never dropped.                                    *)
(***************************************************************************)
ErrorKinds == {"InterpSyntaxError", "InterpTypeError", "InterpMathError"}

\* the sub-expressions a node evaluates, in order, when none raises
HasNextPart(e, k) ==
    CASE e.kind \in {"Sequence", "Program"} -> k < Len(e.exprs)
      [] e.kind \in {"Print", "Assign", "Not"} -> k < 1
      [] e.kind \in BinaryKinds -> k < 2
      [] e.kind = "If" -> k < 3
      [] e.kind = "While" -> TRUE
      [] OTHER -> FALSE

NextPart(e, k) ==
    CASE e.kind \in {"Sequence", "Program"} -> e.exprs[k + 1]
      [] e.kind = "Print" -> e.to_print
      [] e.kind = "Assign" -> e.value
      [] e.kind = "Not" -> e.expr
      [] e.kind \in BinaryKinds -> IF k = 0 THEN e.left ELSE e.right
      [] e.kind = "If" -> IF k = 0 THEN e.condition ELSE IF k = 1 THEN e.true ELSE e.false
      [] e.kind = "While" -> IF k % 2 = 0 THEN e.condition ELSE e.body

\* the nodes that raise themselves, and after how many sub-expressions
RaisesItself(e, k) ==
    \/ e.kind \in {"Variable", "Unhandled"} /\ k = 0
    \/ e.kind \in {"Assign", "Not", "If", "While"} /\ k = 1
    \/ e.kind \in BinaryKinds /\ k = 2

C15_ErrorEndsTheRun ==
    [][/\ pc # "raised"
       /\ pc' = "raised" =>
              LET k == Len(Parts')
                  state_k == IF k = 0 THEN new_state ELSE Parts'[k].ret
                  out_k == IF k = 0 THEN out ELSE Parts'[k].out
              IN  /\ result'.err \in ErrorKinds
                  /\ \A i \in 1..k : Parts'[i].e = NextPart(expr', i - 1)
                  /\ \/ RaisesItself(expr', k) /\ out' = out_k
                     \/ /\ HasNextPart(expr', k)
                        /\ LET raised == evaluate(NextPart(expr', k), state_k,
                                                  [out |-> out_k, tr |-> <<>>,
                                                   assigns |-> <<>>, fuel |-> MaxIter], 1)
                           IN  /\ raised.err = result'.err
                               /\ raised.io.out = out'
                  /\ UNCHANGED <<new_value, new_type, new_state, assigns>>
       /\ pc' = "evaluated" =>
              /\ \A i \in 1..Len(Parts') : Parts'[i].e = NextPart(expr', i - 1)
              /\ IF expr'.kind = "While" THEN Len(Parts') % 2 = 1
                 ELSE ~HasNextPart(expr', Len(Parts'))]_vars

\* a Sequence whose second expression raised after the first had assigned:
\* nothing is bound, the third expression has not run
C15_Witness ==
    /\ pc = "raised"
    /\ expr = Sequence(<<Variable("x"), PrintNode(StringLiteral(<<97>>)), Increment("x")>>)
    /\ result.err = "InterpSyntaxError"
    /\ Parts = <<>>
    /\ out = <<>>
    /\ new_state # EmptyState
    /\ assigns # <<>>

\* an error after a completed Assign of the same Sequence: its frame is lost
C15_WitnessAfterAssign ==
    /\ pc = "raised"
    /\ expr = Sequence(<<Assign(Variable("x"), IntLiteral(1)), PrintNode(Variable("y"))>>)
    /\ result.err = "InterpSyntaxError"
    /\ Len(Parts) = 1
    /\ Parts[1].assigned = 1
    /\ new_state = EmptyState
    /\ assigns = <<>>

(***************************************************************************)
(* C14.  A state is never changed after it is built: for every State       *)
(* object s and name n, get_value(s, n) is the same before and after any   *)
(* later call that builds a State from s or from any other object,         *)
(* assignments that shadow n included.  No object is lost or rewritten,    *)
(* and the chain of frames read from s stays what it was.                  *)
(***************************************************************************)
C14_StateNeverChanges ==
    [][/\ Len(heap') >= Len(heap)
       /\ \A s \in 0..Len(heap) :
              /\ s > 0 => heap'[s] = heap[s]
              /\ Chain(heap', s) = Chain(heap, s)
              /\ \A n \in Names :
                     State_get_value(heap', s, n) = State_get_value(heap, s, n)]_vars

\* an object shadows the binding its next_state holds for the same name, and
\* the lookup from the older object still yields the older binding
C14_Witness ==
    \E s \in 1..Len(heap) :
        /\ heap[s].next_state > 0
        /\ heap[s].variable_name = "x"
        /\ heap[heap[s].next_state].variable_name = "x"
        /\ State_get_value(heap, s, "x") = <<PyStr(<<97>>), String>>
        /\ State_get_value(heap, heap[s].next_state, "x") = <<PyInt(0), Integer>>

\* the lookup on objects is the lookup on the chain of frames read from them,
\* and set_value on an object is set_value on its chain
Heap_ChainsAgree ==
    \A s \in 0..Len(heap) :
        /\ \A n \in Names : State_get_value(heap, s, n) = get_value(Chain(heap, s), n)
        /\ \A n \in Names, v \in HeapValues :
               LET h == State_set_value(heap, s, n, v[1], v[2])
               IN  Chain(h, Len(h)) = set_value(Chain(heap, s), n, v[1], v[2])
        /\ LET h == State_copy(heap, s)
           IN  Chain(h, IF s = 0 THEN 0 ELSE Len(h)) = copy(Chain(heap, s))

(***************************************************************************)
(* C21.  In every state a run from the empty state reaches, all frames     *)
(* that bind the same name carry the same type marker: in the state the    *)
(* Program's loop holds, in the state a call returned and in every state   *)
(* passed to or returned by a nested call of evaluate.  So every           *)
(* evaluation of Variable(name) during a call returns the same type, the   *)
(* type of the binding the name had when the call began, if it had one.    *)
(***************************************************************************)
OneTypePerName(chain) ==
    \A i \in 1..Len(chain), j \in 1..Len(chain) :
        chain[i].variable_name = chain[j].variable_name
            => chain[i].value[2] = chain[j].value[2]

VariableReads ==
    {i \in 1..Len(result.io.tr) : result.io.tr[i].e.kind = "Variable"}

C21_OneTypePerName ==
    /\ OneTypePerName(new_state)
    /\ pc = "evaluated" => OneTypePerName(result.state)
    /\ \A i \in 1..Len(result.io.tr) :
           /\ OneTypePerName(result.io.tr[i].arg)
           /\ OneTypePerName(result.io.tr[i].ret)
    /\ \A i \in VariableReads :
           LET name == result.io.tr[i].e.variable_name
           IN  /\ Bound(new_state, name)
                      => result.io.tr[i].type = FirstFrame(new_state, name).value[2]
               /\ \A j \in VariableReads :
                      result.io.tr[j].e.variable_name = name
                          => result.io.tr[j].type = result.io.tr[i].type

\* a name bound twice, to different values of the one type
C21_Witness ==
    /\ pc = "running"
    /\ Len(new_state) = 2
    /\ new_state[1].variable_name = "x"
    /\ new_state[2].variable_name = "x"
    /\ new_state[1].value[1] # new_state[2].value[1]
    /\ new_state[1].value[2] = Integer
    /\ new_state[2].value[2] = Integer

\* a loop that rebinds the name it reads: every read returns Integer
C21_WitnessReads ==
    /\ pc = "evaluated"
    /\ expr.kind = "While"
    /\ Len(result.state) = Len(new_state) + 2
    /\ \E i \in VariableReads, j \in VariableReads :
           /\ result.io.tr[i].e.variable_name = "x"
           /\ result.io.tr[j].e.variable_name = "x"
           /\ result.io.tr[i].value # result.io.tr[j].value

(***************************************************************************)
(* C22.  The literal nodes of the programs run hold values of their own    *)
(* kind.  Then every (value, type) pair a call of evaluate returned, the   *)
(* top-level call and every nested one, and every binding of a reachable   *)
(* state is well-typed: the value is the absence-of-value for Unit, an     *)
(* integer for Integer, a boolean for Boolean, a string for String (and a  *)
(* float for FloatingPoint).  And, Or, Not, the six relational nodes and   *)
(* While return type Boolean; Add, Subtract, Multiply and Divide return    *)
(* the common type of their operands.                                      *)
(***************************************************************************)
WellTyped(value, type) ==
    CASE type = Unit -> value = PyNone
      [] type = Integer -> value.cls = "int" /\ value = PyInt(value.n)
      [] type = Boolean -> value \in {PyBool(TRUE), PyBool(FALSE)}
      [] type = String -> value.cls = "str" /\ value = PyStr(value.s)
      [] type = FloatingPoint -> value.cls = "float"
      [] OTHER -> FALSE

WellTypedState(chain) ==
    \A i \in 1..Len(chain) : WellTyped(chain[i].value[1], chain[i].value[2])

BooleanKinds == LogicalKinds \cup RelationalKinds \cup {"Not", "While"}

C22_WellTyped ==
    /\ WellTypedState(new_state)
    /\ pc \in {"running", "returned"} => WellTyped(new_value, new_type)
    /\ \A i \in 1..Len(result.io.tr) :
           LET ev == result.io.tr[i]
           IN  /\ WellTyped(ev.value, ev.type)
               /\ WellTypedState(ev.arg)
               /\ WellTypedState(ev.ret)
               /\ ev.e.kind \in BooleanKinds => ev.type = Boolean
    /\ pc = "evaluated" =>
           /\ WellTyped(result.value, result.type)
           /\ WellTypedState(result.state)
           /\ expr.kind \in BooleanKinds => result.type = Boolean
           /\ expr.kind \in ArithmeticKinds =>
                  /\ Len(Parts) = 2
                  /\ result.type = Parts[1].type
                  /\ result.type = Parts[2].type

\* an Integer division that returned, its operands and result integers
C22_Witness ==
    /\ pc = "evaluated"
    /\ expr = Binary("Divide", IntLiteral(7), IntLiteral(2))
    /\ result.type = Integer
    /\ result.value.cls = "int"
    /\ Parts[1].type = Integer
    /\ Parts[2].type = Integer

\* And returns one of its operands, a boolean
C22_WitnessAnd ==
    /\ pc = "evaluated"
    /\ expr.kind = "And"
    /\ result.type = Boolean
    /\ result.value = PyBool(TRUE)
    /\ new_state # EmptyState

====
